---- MODULE Spec2Model ----
(***************************************************************************)
(* A model of newdoc's orchestrator, src/lib.rs: Options::new, run and     *)
(* process_module_type.  One behaviour is one invocation of run on one     *)
(* parsed command line.  The collaborators that live in other files of the *)
(* crate (Module::new, Input, Module::write_file, validation::validate,    *)
(* the clap configuration, the logger) are modelled from the written       *)
(* specification; everything in lib.rs is modelled from its code.          *)
(***************************************************************************)
EXTENDS Integers, Sequences, FiniteSets, TLC

(* ------------------------------ bounds --------------------------------- *)

\* The longest list of (module flag, title) pairs on one command line.
MaxMods == 2

\* The longest list of file names given to --validate.
MaxValidate == 2

\* Titles are sequences of one-character strings: "A  b", which normalises
\* to the id a-b, and "c!", which normalises to the id c.  A title may be
\* given more than once on a command line.
Titles == { <<"A", " ", " ", "b">>, <<"c", "!">> }

\* The titles that can be given to --include-in.
IncludeInTitles == { <<"c", "!">> }

\* File names that can be given to --validate, as sequences of a prefix,
\* one-character strings and an extension: con_a-b.adoc, which follows the
\* naming convention, and bad_Name.txt, which does not.
ValidateFiles ==
    { << "con_", "a", "-", "b", ".adoc" >>,
      << "b", "a", "d", "_", "N", "a", "m", "e", ".txt" >> }

\* An absent value (Option::None).  Every optional value of the model is a
\* sequence, so that None, the empty sequence, compares with all of them: a
\* title and a directory are non-empty sequences, and an optional list or
\* module is Some(x), the one-element sequence of it.
None == << >>

Some(x) == << x >>

\* The option parts of the command lines explored: which boolean flags are
\* present and the value of --target-dir (None when absent).

OptionArgs ==
    { [present |-> {}, target_dir |-> None],
      [present |-> {"no-prefixes", "no-comments", "no-examples", "quiet"},
       target_dir |-> << "out" >>] }

(* --------------------------- small helpers ----------------------------- *)

SeqsUpTo(S, n) == UNION { [1..k -> S] : k \in 0..n }

Range(s) == { s[k] : k \in 1..Len(s) }

(* -------------------- the module-type enumeration ---------------------- *)

ModuleType == { "Assembly", "Concept", "Procedure", "Reference", "Snippet" }

\* The file-name prefix of each module type.
Prefix(module_type) ==
    CASE module_type = "Assembly"  -> "assembly_"
      [] module_type = "Concept"   -> "con_"
      [] module_type = "Procedure" -> "proc_"
      [] module_type = "Reference" -> "ref_"
      [] module_type = "Snippet"   -> "snip_"

Extension == ".adoc"

(* ------------- the parsed command line (clap::ArgMatches) -------------- *)

\* A parsed command line is a record:
\*   mods        the (flag, title) pairs of the five module flags, in the
\*               order they appeared on the command line
\*   include_in  the title given to --include-in, or None
\*   validate    the file names given to --validate, in order
\*   present     the boolean flags that are present
\*   target_dir  the value of --target-dir, or None

ModuleFlags == { "assembly", "concept", "procedure", "reference", "snippet" }

\* ArgMatches::values_of: the values given to an option, in command-line
\* order, or None when the option does not occur.
ValuesOf(args, name) ==
    LET vals ==
          CASE name \in ModuleFlags ->
                 LET sel == SelectSeq(args.mods, LAMBDA m : m.flag = name)
                 IN  [k \in 1..Len(sel) |-> sel[k].title]
            [] name = "validate"   -> args.validate
            [] name = "include-in" ->
                 IF args.include_in = None THEN << >> ELSE << args.include_in >>
            [] name = "target-dir" ->
                 IF args.target_dir = None THEN << >> ELSE << args.target_dir >>
            [] OTHER -> << >>
    IN  IF vals = << >> THEN None ELSE vals

\* ArgMatches::value_of: the first value given to an option, or None.
ValueOf(args, name) ==
    IF ValuesOf(args, name) = None THEN None ELSE Head(ValuesOf(args, name))

\* ArgMatches::is_present for the boolean flags.
IsPresent(args, name) == name \in args.present

\* The clap configuration: --include-in requires at least one of the five
\* module flags; --verbose and --quiet exclude each other.
CmdLineOk(args) ==
    /\ (args.include_in # None => args.mods # << >>)
    /\ ~ ({"verbose", "quiet"} \subseteq args.present)

(* ----------------------------- Options --------------------------------- *)

OptionsNew(args) ==
    LET verbosity == IF IsPresent(args, "verbose") THEN "Verbose"
                     ELSE IF IsPresent(args, "quiet") THEN "Quiet"
                     ELSE "Default"
    IN  [ comments   |-> ~ IsPresent(args, "no-comments"),
          prefixes   |-> ~ IsPresent(args, "no-prefixes"),
          examples   |-> ~ IsPresent(args, "no-examples"),
          target_dir |-> IF ValueOf(args, "target-dir") # None
                         THEN ValueOf(args, "target-dir")
                         ELSE << "." >>,
          verbosity  |-> verbosity ]

(* -------------------- Title-to-Id converter (4.1) ---------------------- *)

LowerCase(c) ==
    CASE c = "A" -> "a"
      [] c = "B" -> "b"
      [] c = "C" -> "c"
      [] OTHER   -> c

IsAlphanumeric(c) == c \in { "a", "b", "c", "A", "B", "C", "0", "1" }

Separator == "-"

\* Every run of characters that are not alphanumeric becomes one separator.
RECURSIVE CollapseRuns(_, _)
CollapseRuns(s, in_run) ==
    IF s = << >> THEN << >>
    ELSE IF IsAlphanumeric(Head(s))
         THEN << Head(s) >> \o CollapseRuns(Tail(s), FALSE)
         ELSE IF in_run THEN CollapseRuns(Tail(s), TRUE)
              ELSE << Separator >> \o CollapseRuns(Tail(s), TRUE)

StripLeading(s) ==
    IF s # << >> /\ Head(s) = Separator THEN Tail(s) ELSE s

StripTrailing(s) ==
    IF s # << >> /\ s[Len(s)] = Separator THEN SubSeq(s, 1, Len(s) - 1) ELSE s

\* Lower-case, collapse the separator runs, strip a leading and a trailing
\* separator (after collapsing there is at most one of each).
ToId(title) ==
    LET lower == [k \in 1..Len(title) |-> LowerCase(title[k])]
    IN  StripTrailing(StripLeading(CollapseRuns(lower, FALSE)))

(* --------------- Template renderer and Module entity ------------------- *)

\* The rendered file body, kept structured: what was substituted into the
\* fixed template and which optional blocks are present.
Render(module_type, title, id, options, includes) ==
    [ kind     |-> module_type,
      title    |-> title,
      anchor   |-> id,
      comments |-> options.comments,
      examples |-> options.examples,
      includes |-> includes ]

ModuleId(module_type, title, options) ==
    IF options.prefixes THEN << Prefix(module_type) >> \o ToId(title)
                        ELSE ToId(title)

\* Input::new(module_type, title, options).include(includes).into()
ModuleFromInput(module_type, title, options, includes) ==
    LET id        == ModuleId(module_type, title, options)
        file_name == id \o << Extension >>
    IN  [ module_type       |-> module_type,
          title             |-> title,
          id                |-> id,
          file_name         |-> file_name,
          include_statement |-> << "include::" >> \o file_name
                                  \o << "[leveloffset=+1]" >>,
          content           |-> Render(module_type, title, id, options, includes) ]

\* Module::new(module_type, title, options): a module without includes.
ModuleNew(module_type, title, options) ==
    ModuleFromInput(module_type, title, options, << >>)

\* The path Module::write_file writes to: <target_dir>/<id><extension>.
FilePath(module, options) == options.target_dir \o << "/" >> \o module.file_name

\* What a successful write_file can do to its path.  A path that does not
\* exist is created.  What a successful write does to a path that exists is
\* not fixed by the written specification (the existence of a file affects
\* the run): the file is overwritten or it is preserved.  A write that is
\* refused is a failed write, the Err outcome of the write steps.
WriteModes(disk, module, options) ==
    IF FilePath(module, options) \in DOMAIN disk
    THEN { "overwritten", "preserved" }
    ELSE { "created" }

\* A variant of the write below that reports success and writes nothing.
WriteFileNowhere(disk, module, options, mode) == disk

\* The disk after a successful write of the module in the given mode.
WriteFile(disk, module, options, mode) ==
    LET path == FilePath(module, options)
    IN  IF mode = "preserved" THEN disk
        ELSE [p \in (DOMAIN disk) \cup {path} |->
                 IF p = path THEN module.content ELSE disk[p]]

\* The outcomes of one call of write_file: a successful write in one of its
\* modes, or an error.
WriteOutcomes(disk, module, options) == WriteModes(disk, module, options) \cup { "Err" }

(* ---------------------- Name validator (4.4) --------------------------- *)

LowercaseLetters ==
    { "a", "b", "c", "d", "e", "f", "g", "h", "i", "j", "k", "l", "m",
      "n", "o", "p", "q", "r", "s", "t", "u", "v", "w", "x", "y", "z" }

Digits == { "0", "1", "2", "3", "4", "5", "6", "7", "8", "9" }

Prefixes == { Prefix(t) : t \in ModuleType }

\* The naming rules a file name violates.  The name is its stem followed by
\* its extension; the stem may start with the prefix of a module type.
NameIssues(file_name) ==
    LET stem == SubSeq(file_name, 1, Len(file_name) - 1)
        body == IF stem # << >> /\ Head(stem) \in Prefixes THEN Tail(stem) ELSE stem
    IN    (IF stem = << >> \/ Head(stem) \notin Prefixes
           THEN { "no module-type prefix" } ELSE {})
     \cup (IF \E k \in 1..Len(body) :
                 body[k] \notin LowercaseLetters \cup Digits \cup { Separator }
           THEN { "character outside the allowed set" } ELSE {})
     \cup (IF \E k \in 1..(Len(body) - 1) :
                 body[k] = Separator /\ body[k + 1] = Separator
           THEN { "consecutive separators" } ELSE {})
     \cup (IF body # << >> /\ (Head(body) = Separator \/ body[Len(body)] = Separator)
           THEN { "leading or trailing separator" } ELSE {})
     \cup (IF file_name[Len(file_name)] # Extension
           THEN { "wrong extension" } ELSE {})

\* A variant of the outcomes below in which a name with issues makes
\* validate return the error.
ValidateOutcomesFailingOnIssues(file_name) ==
    IF NameIssues(file_name) = {}
    THEN { [outcome |-> "Ok", issues |-> {}], [outcome |-> "Err", issues |-> {}] }
    ELSE { [outcome |-> "Err", issues |-> NameIssues(file_name)] }

\* The outcomes of one call of validate: Ok after the issues of the name
\* have been reported (none for a name that follows the convention), or an
\* error of the validation itself (the file cannot be read).
ValidateOutcomes(file_name) ==
    { [outcome |-> "Ok",  issues |-> NameIssues(file_name)],
      [outcome |-> "Err", issues |-> {}] }

(* ------------------------ process_module_type -------------------------- *)

Unimplemented == "unimplemented!()"

\* A variant of the match below with the "reference" arm forgotten.
ModuleTypeOfStrWithoutReference(module_type_str) ==
    CASE module_type_str \in { "assembly", "include-in" } -> "Assembly"
      [] module_type_str = "concept"   -> "Concept"
      [] module_type_str = "procedure" -> "Procedure"
      [] module_type_str = "snippet"   -> "Snippet"
      [] OTHER -> Unimplemented

\* The match of process_module_type.
ModuleTypeOfStr(module_type_str) ==
    CASE module_type_str \in { "assembly", "include-in" } -> "Assembly"
      [] module_type_str = "concept"   -> "Concept"
      [] module_type_str = "procedure" -> "Procedure"
      [] module_type_str = "reference" -> "Reference"
      [] module_type_str = "snippet"   -> "Snippet"
      [] OTHER -> Unimplemented

\* One module per title, in the order of the titles; the fault of the
\* unimplemented!() arm when the string names no module type.
ProcessModuleType(titles, module_type_str, options) ==
    LET module_type == ModuleTypeOfStr(module_type_str)
    IN  IF module_type = Unimplemented
        THEN [fault |-> TRUE, modules |-> << >>]
        ELSE [fault   |-> FALSE,
              modules |-> [k \in 1..Len(titles) |->
                              ModuleNew(module_type, titles[k], options)]]

(* -------------------------------- run ---------------------------------- *)

\* A variant of the array below with the last flag forgotten.
ModuleTypeStrsWithoutSnippet == << "assembly", "concept", "procedure", "reference" >>

\* The array the first loop of run iterates over.
ModuleTypeStrs == << "assembly", "concept", "procedure", "reference", "snippet" >>

\* A variant of the first loop that walks the command line instead of the
\* array: one call of process_module_type per (flag, title) pair, in the
\* order the flags appeared.
RECURSIVE CollectPairs(_, _)
CollectPairs(pairs, opts) ==
    IF pairs = << >> THEN [modules |-> << >>, calls |-> << >>, fault |-> FALSE]
    ELSE LET made == ProcessModuleType(<< Head(pairs).title >>, Head(pairs).flag, opts)
             call == [str |-> Head(pairs).flag,
                      module_type |-> ModuleTypeOfStr(Head(pairs).flag)]
             rest == CollectPairs(Tail(pairs), opts)
         IN  [modules |-> made.modules \o rest.modules,
              calls   |-> << call >> \o rest.calls,
              fault   |-> made.fault \/ rest.fault]

CollectInCommandLineOrder(strs, args, opts) == CollectPairs(args.mods, opts)

\* The first loop of run, from the given position of the array on: the
\* modules appended to non_populated, the calls of process_module_type made
\* (its string argument and the module type it matched), and whether a call
\* ended in the unimplemented!() fault, which ends the loop.
RECURSIVE CollectFrom(_, _, _)
CollectFrom(strs, args, opts) ==
    IF strs = << >> THEN [modules |-> << >>, calls |-> << >>, fault |-> FALSE]
    ELSE IF ValuesOf(args, Head(strs)) = None
         THEN CollectFrom(Tail(strs), args, opts)
         ELSE LET made == ProcessModuleType(ValuesOf(args, Head(strs)), Head(strs), opts)
                  call == [str |-> Head(strs), module_type |-> ModuleTypeOfStr(Head(strs))]
              IN  IF made.fault
                  THEN [modules |-> << >>, calls |-> << call >>, fault |-> TRUE]
                  ELSE LET rest == CollectFrom(Tail(strs), args, opts)
                       IN  [modules |-> made.modules \o rest.modules,
                            calls   |-> << call >> \o rest.calls,
                            fault   |-> rest.fault]

\* A variant of the gathering below that collects in reverse.
IncludeStatementsReversed(modules) ==
    [k \in 1..Len(modules) |-> modules[Len(modules) + 1 - k].include_statement]

\* A variant of the gathering below that leaves the assemblies out.
IncludeStatementsOfOthers(modules) ==
    LET others == SelectSeq(modules, LAMBDA m : m.module_type # "Assembly")
    IN  [k \in 1..Len(others) |-> others[k].include_statement]

\* The include statements of the modules, one per module, in their order.
IncludeStatements(modules) ==
    [k \in 1..Len(modules) |-> modules[k].include_statement]

VARIABLES
    cmdline_args,       \* the parsed command line run is called with
    options,            \* the Options run is called with
    pc,                 \* the position of run
    result,             \* "none" while run executes, then how it ended
    non_populated,      \* the Vec of the modules collected by the first loop
    calls,              \* the calls of process_module_type made so far
    next_write,         \* the index in non_populated the write loop is at
    disk,               \* the files of this run on the disk: path -> content
    write_log,          \* the paths of the successful writes, in order
    write_modes,        \* what each successful write did to its path
    include_statements, \* the include list gathered, None before that
    populated,          \* the populated assembly built, None before that
    n_populated,        \* how many populated assemblies were built
    next_validate,      \* the index in the --validate values the loop is at
    validated           \* the validations run: file name and outcome, in order

vars == << cmdline_args, options, pc, result, non_populated, calls, next_write,
           disk, write_log, write_modes, include_statements, populated, n_populated,
           next_validate, validated >>

\* The command lines explored.
CmdLines ==
    { a \in [ mods       : SeqsUpTo([flag : ModuleFlags, title : Titles], MaxMods),
              include_in : IncludeInTitles \cup {None},
              validate   : SeqsUpTo(ValidateFiles, MaxValidate),
              present    : { o.present : o \in OptionArgs },
              target_dir : { o.target_dir : o \in OptionArgs } ] :
        /\ CmdLineOk(a)
        /\ [present |-> a.present, target_dir |-> a.target_dir] \in OptionArgs }

Init ==
    /\ cmdline_args \in CmdLines
    /\ options = OptionsNew(cmdline_args)
    /\ pc = "logger"
    /\ result = "none"
    /\ non_populated = << >>
    /\ calls = << >>
    /\ next_write = 1
    /\ disk = << >>
    /\ write_log = << >>
    /\ write_modes = << >>
    /\ include_statements = None
    /\ populated = None
    /\ n_populated = 0
    /\ next_validate = 1
    /\ validated = << >>

\* run returns or panics: nothing of run executes afterwards.
Return(how) ==
    /\ pc' = "returned"
    /\ result' = how

\* logging::initialize_logger(options.verbosity)?
InitializeLogger ==
    /\ pc = "logger"
    /\ \E ok \in BOOLEAN :
         IF ok THEN pc' = "collect" /\ result' = result
               ELSE Return("Err(logger)")
    /\ UNCHANGED << cmdline_args, options, non_populated, calls, next_write, disk,
                    write_log, write_modes, include_statements, populated, n_populated,
                    next_validate, validated >>

\* The first loop: collect the modules of the five module flags.
CollectModules ==
    /\ pc = "collect"
    /\ LET c == CollectFrom(ModuleTypeStrs, cmdline_args, options)
       IN  /\ non_populated' = c.modules
           /\ calls' = c.calls
           /\ IF c.fault THEN Return("panic(unimplemented)")
                         ELSE pc' = "write" /\ result' = result
    /\ UNCHANGED << cmdline_args, options, next_write, disk, write_log, write_modes,
                    include_statements, populated, n_populated, next_validate,
                    validated >>

\* A variant of the write step below that notes a write failure and goes on
\* with the next module instead of returning.
WriteModuleContinuing ==
    /\ pc = "write"
    /\ next_write <= Len(non_populated)
    /\ \E outcome \in WriteOutcomes(disk, non_populated[next_write], options) :
         IF outcome # "Err"
         THEN /\ disk' = WriteFile(disk, non_populated[next_write], options, outcome)
              /\ write_log' = Append(write_log, FilePath(non_populated[next_write], options))
              /\ write_modes' = Append(write_modes, outcome)
              /\ result' = result
         ELSE /\ result' = "Err(write)"
              /\ UNCHANGED << disk, write_log, write_modes >>
    /\ next_write' = next_write + 1
    /\ pc' = pc
    /\ UNCHANGED << cmdline_args, options, non_populated, calls, include_statements,
                    populated, n_populated, next_validate, validated >>

\* One iteration of the write loop: module.write_file(&options)?
WriteModule ==
    /\ pc = "write"
    /\ next_write <= Len(non_populated)
    /\ \E outcome \in WriteOutcomes(disk, non_populated[next_write], options) :
         IF outcome # "Err"
         THEN /\ disk' = WriteFile(disk, non_populated[next_write], options, outcome)
              /\ write_log' = Append(write_log, FilePath(non_populated[next_write], options))
              /\ write_modes' = Append(write_modes, outcome)
              /\ next_write' = next_write + 1
              /\ pc' = pc /\ result' = result
         ELSE /\ Return("Err(write)")
              /\ UNCHANGED << disk, write_log, write_modes, next_write >>
    /\ UNCHANGED << cmdline_args, options, non_populated, calls, include_statements,
                    populated, n_populated, next_validate, validated >>

\* A variant of the loop exit below that leaves the loop at any iteration.
WritesDoneEarly ==
    /\ pc = "write"
    /\ pc' = "populated"
    /\ UNCHANGED << cmdline_args, options, result, non_populated, calls, next_write,
                    disk, write_log, write_modes, include_statements, populated, n_populated,
                    next_validate, validated >>

\* The write loop is over.
WritesDone ==
    /\ pc = "write"
    /\ next_write > Len(non_populated)
    /\ pc' = "populated"
    /\ UNCHANGED << cmdline_args, options, result, non_populated, calls, next_write,
                    disk, write_log, write_modes, include_statements, populated, n_populated,
                    next_validate, validated >>

\* A variant of the populated-assembly step below that builds the assembly
\* and goes on to the validation without writing it.
PopulatedAssemblyUnwritten ==
    /\ pc = "populated"
    /\ ValueOf(cmdline_args, "include-in") # None
    /\ LET title      == ValueOf(cmdline_args, "include-in")
           statements == IncludeStatements(non_populated)
           module     == ModuleFromInput("Assembly", title, options, statements)
       IN  /\ include_statements' = Some(statements)
           /\ IF statements = << >>
              THEN /\ Return("panic(assert)")
                   /\ UNCHANGED << populated, n_populated >>
              ELSE /\ populated' = Some(module)
                   /\ n_populated' = n_populated + 1
                   /\ pc' = "validate" /\ result' = result
    /\ UNCHANGED << cmdline_args, options, non_populated, calls, next_write,
                    disk, write_log, write_modes, next_validate, validated >>

\* The populated assembly: gather the include statements, assert that there
\* is one, build the assembly and write it.
PopulatedAssembly ==
    /\ pc = "populated"
    /\ ValueOf(cmdline_args, "include-in") # None
    /\ LET title      == ValueOf(cmdline_args, "include-in")
           statements == IncludeStatements(non_populated)
           module     == ModuleFromInput("Assembly", title, options, statements)
       IN  /\ include_statements' = Some(statements)
           /\ IF statements = << >>
              THEN /\ Return("panic(assert)")
                   /\ UNCHANGED << populated, n_populated, disk, write_log, write_modes >>
              ELSE /\ populated' = Some(module)
                   /\ n_populated' = n_populated + 1
                   /\ \E outcome \in WriteOutcomes(disk, module, options) :
                        IF outcome # "Err"
                        THEN /\ disk' = WriteFile(disk, module, options, outcome)
                             /\ write_log' = Append(write_log, FilePath(module, options))
                             /\ write_modes' = Append(write_modes, outcome)
                             /\ pc' = "validate" /\ result' = result
                        ELSE /\ Return("Err(write)")
                             /\ UNCHANGED << disk, write_log, write_modes >>
    /\ UNCHANGED << cmdline_args, options, non_populated, calls, next_write,
                    next_validate, validated >>

\* No --include-in: no populated assembly.
NoPopulatedAssembly ==
    /\ pc = "populated"
    /\ ValueOf(cmdline_args, "include-in") = None
    /\ pc' = "validate"
    /\ UNCHANGED << cmdline_args, options, result, non_populated, calls, next_write,
                    disk, write_log, write_modes, include_statements, populated, n_populated,
                    next_validate, validated >>

\* The values of --validate the last loop iterates over.
FilesToValidate(args) ==
    IF ValuesOf(args, "validate") = None THEN << >> ELSE ValuesOf(args, "validate")

\* One iteration of the validation loop: validation::validate(file)?
ValidateFile ==
    /\ pc = "validate"
    /\ next_validate <= Len(FilesToValidate(cmdline_args))
    /\ \E v \in ValidateOutcomes(FilesToValidate(cmdline_args)[next_validate]) :
         /\ validated' = Append(validated,
                [file    |-> FilesToValidate(cmdline_args)[next_validate],
                 outcome |-> v.outcome,
                 issues  |-> v.issues])
         /\ IF v.outcome = "Ok"
            THEN next_validate' = next_validate + 1 /\ pc' = pc /\ result' = result
            ELSE Return("Err(validate)") /\ next_validate' = next_validate
    /\ UNCHANGED << cmdline_args, options, non_populated, calls, next_write, disk,
                    write_log, write_modes, include_statements, populated, n_populated >>

\* The end of run: Ok(())
ReturnOk ==
    /\ pc = "validate"
    /\ next_validate > Len(FilesToValidate(cmdline_args))
    /\ Return("Ok")
    /\ UNCHANGED << cmdline_args, options, non_populated, calls, next_write, disk,
                    write_log, write_modes, include_statements, populated, n_populated,
                    next_validate, validated >>

Next ==
    \/ InitializeLogger
    \/ CollectModules
    \/ WriteModule
    \/ WritesDone
    \/ PopulatedAssembly
    \/ NoPopulatedAssembly
    \/ ValidateFile
    \/ ReturnOk

Spec == Init /\ [][Next]_vars

(* ===================== properties of run ============================== *)

\* The modules run generated so far: the collected ones, then the populated
\* assembly once it is built.
Generated == non_populated \o populated

\* The disk after writing the modules in order, each in its mode, starting
\* from disk d.  There is one mode per module.
RECURSIVE DiskAfter(_, _, _, _)
DiskAfter(d, modules, modes, opts) ==
    IF modules = << >> THEN d
    ELSE DiskAfter(WriteFile(d, Head(modules), opts, Head(modes)),
                   Tail(modules), Tail(modes), opts)

\* The paths of the modules, in order.
PathsOf(modules) == [k \in 1..Len(modules) |-> FilePath(modules[k], options)]

\* The write loop failed at a collected module (and not at the populated one).
ModuleWriteFailed ==
    result = "Err(write)" /\ next_write <= Len(non_populated)

\* C1: when the write of the k-th collected module fails, run returns the
\* error at once: exactly the modules 1..k-1 were written and their files
\* stay on the disk, no populated assembly is gathered, built or written,
\* no file is validated, and nothing of run executes afterwards.
C1_WriteFailureAbortsRun ==
    result = "Err(write)" =>
        /\ pc = "returned"
        /\ ~ ENABLED Next
        /\ ModuleWriteFailed =>
              /\ write_log = PathsOf(SubSeq(non_populated, 1, next_write - 1))
              /\ Len(write_modes) = next_write - 1
              /\ disk = DiskAfter(<< >>, SubSeq(non_populated, 1, next_write - 1),
                                  write_modes, options)
              /\ DOMAIN disk = Range(write_log)
              /\ include_statements = None
              /\ populated = None
              /\ n_populated = 0
              /\ validated = << >>

\* The second of two collected modules failed to be written, with a
\* populated assembly and a validation still to come.
C1_Witness ==
    /\ ModuleWriteFailed
    /\ next_write = 2
    /\ Len(non_populated) = 2
    /\ Len(write_log) = 1
    /\ cmdline_args.include_in # None
    /\ cmdline_args.validate # << >>

\* C2: the include list gathered for the populated assembly has one entry
\* per collected module, the module's include_statement unmodified, in
\* collection order, and it is the list the populated assembly is built with.
C2_IncludeListIsCollectedStatements ==
    include_statements # None =>
        LET list == include_statements[1]
        IN  /\ Len(list) = Len(non_populated)
            /\ \A k \in 1..Len(list) : list[k] = non_populated[k].include_statement
            /\ populated # None => populated[1].content.includes = list

\* --procedure "c!" --concept "A  b" --include-in ...: the list is the
\* statement of the concept followed by the statement of the procedure.
C2_Witness ==
    /\ cmdline_args.mods = << [flag |-> "procedure", title |-> <<"c", "!">>],
                              [flag |-> "concept", title |-> <<"A", " ", " ", "b">>] >>
    /\ options.prefixes
    /\ populated # None
    /\ include_statements =
         Some(<< << "include::", "con_", "a", "-", "b", ".adoc", "[leveloffset=+1]" >>,
                 << "include::", "proc_", "c", ".adoc", "[leveloffset=+1]" >> >>)
    /\ populated[1].content.includes = include_statements[1]

\* C3: at most one populated assembly is built and written; it is built
\* only when --include-in is given and only after every collected module
\* has been written; its write is the last one of the log.
C3_OnePopulatedAssemblyAfterAllWrites ==
    /\ n_populated <= 1
    /\ Len(populated) = n_populated
    /\ Len(write_log) <= Len(non_populated) + n_populated
    /\ cmdline_args.include_in = None =>
          /\ n_populated = 0
          /\ include_statements = None
          /\ Len(write_log) <= Len(non_populated)
    /\ n_populated = 1 =>
          /\ cmdline_args.include_in # None
          /\ next_write = Len(non_populated) + 1
          /\ SubSeq(write_log, 1, Len(non_populated)) = PathsOf(non_populated)
          /\ populated[1].module_type = "Assembly"
          /\ populated[1].title = cmdline_args.include_in
    /\ Len(write_log) = Len(non_populated) + 1 =>
          /\ n_populated = 1
          /\ write_log[Len(write_log)] = FilePath(populated[1], options)

\* The populated assembly was written after two collected modules.
C3_Witness ==
    /\ n_populated = 1
    /\ Len(non_populated) = 2
    /\ Len(write_log) = 3
    /\ result = "Ok"

\* The position of a module type in the fixed order of the flags.
TypeRank(module_type) ==
    CASE module_type = "Assembly"  -> 1
      [] module_type = "Concept"   -> 2
      [] module_type = "Procedure" -> 3
      [] module_type = "Reference" -> 4
      [] module_type = "Snippet"   -> 5
      [] OTHER -> 6

\* The module type named like a flag.
TypeNamedLike(flag) ==
    CASE flag = "assembly"  -> "Assembly"
      [] flag = "concept"   -> "Concept"
      [] flag = "procedure" -> "Procedure"
      [] flag = "reference" -> "Reference"
      [] flag = "snippet"   -> "Snippet"
      [] OTHER -> "no module type"

TitlesOfFlag(flag) ==
    LET sel == SelectSeq(cmdline_args.mods, LAMBDA m : m.flag = flag)
    IN  [k \in 1..Len(sel) |-> sel[k].title]

TitlesOfType(modules, module_type) ==
    LET sel == SelectSeq(modules, LAMBDA m : m.module_type = module_type)
    IN  [k \in 1..Len(sel) |-> sel[k].title]

\* C4: once collected, non_populated holds exactly one module per title
\* given to the five module flags, grouped by flag in the order assembly,
\* concept, procedure, reference, snippet whatever the order on the command
\* line, within a flag in the order of its titles; the files are written in
\* that order.
C4_CollectionOrder ==
    pc \notin { "logger", "collect" } /\ result # "Err(logger)" =>
        /\ Len(non_populated) = Len(cmdline_args.mods)
        /\ \A i, j \in 1..Len(non_populated) :
              i < j => TypeRank(non_populated[i].module_type)
                         <= TypeRank(non_populated[j].module_type)
        /\ \A f \in ModuleFlags :
              TitlesOfType(non_populated, TypeNamedLike(f)) = TitlesOfFlag(f)
        /\ \A k \in 1..Len(write_log) :
              k <= Len(non_populated) =>
                  write_log[k] = FilePath(non_populated[k], options)

\* --snippet "c!" --assembly "A  b": the assembly is collected and written
\* first although it came last on the command line.
C4_Witness ==
    /\ cmdline_args.mods = << [flag |-> "snippet", title |-> <<"c", "!">>],
                              [flag |-> "assembly", title |-> <<"A", " ", " ", "b">>] >>
    /\ Len(write_log) >= 2
    /\ non_populated[1].module_type = "Assembly"
    /\ non_populated[2].module_type = "Snippet"

\* Two titles of one flag keep their order.
C4_WitnessWithinFlag ==
    /\ cmdline_args.mods = << [flag |-> "concept", title |-> <<"c", "!">>],
                              [flag |-> "concept", title |-> <<"A", " ", " ", "b">>] >>
    /\ Len(non_populated) = 2
    /\ non_populated[1].title = <<"c", "!">>

\* C5: a validation failure does not abort the run.  A file whose name has
\* issues is reported and validate returns Ok, so the loop goes on: only an
\* error of validate itself, which reports no issue of a name, ends the run
\* in the loop; every validation run so far is of the file at its position
\* and reports the issues of its name; and when validate returned no error,
\* run ends Ok with every file given to --validate validated, the ones after
\* a file with issues included.
C5_ValidationFailureDoesNotAbort ==
    /\ \A k \in 1..Len(validated) :
          /\ validated[k].file = cmdline_args.validate[k]
          /\ validated[k].outcome = "Ok" =>
                /\ validated[k].issues = NameIssues(validated[k].file)
                /\ k = Len(validated) => result \in { "none", "Ok" }
          /\ validated[k].outcome = "Err" =>
                /\ validated[k].issues = {}
                /\ k = Len(validated)
    /\ result = "Err(validate)" =>
          /\ validated # << >>
          /\ validated[Len(validated)].outcome = "Err"
    /\ result = "Ok" =>
          /\ Len(validated) = Len(cmdline_args.validate)
          /\ \A k \in 1..Len(validated) : validated[k].outcome = "Ok"

\* --validate bad_Name.txt con_a-b.adoc: the first file has issues, the
\* second is validated all the same and run ends Ok.
C5_Witness ==
    /\ result = "Ok"
    /\ Len(validated) = 2
    /\ validated[1].file = << "b", "a", "d", "_", "N", "a", "m", "e", ".txt" >>
    /\ { "character outside the allowed set", "wrong extension" } \subseteq validated[1].issues
    /\ validated[2].file = << "con_", "a", "-", "b", ".adoc" >>
    /\ validated[2].issues = {}

\* C6 (as claimed): the include list of the populated assembly holds no
\* include statement of an Assembly-type module.
C6_NoAssemblyInIncludes ==
    include_statements # None =>
        \A k \in 1..Len(non_populated) :
            non_populated[k].module_type = "Assembly" =>
                non_populated[k].include_statement \notin Range(include_statements[1])

\* C6 (amended): the populated assembly itself is not among the modules the
\* include list is gathered from, but the modules of --assembly are: the list
\* starts with the include statements of the --assembly titles, in their
\* order, and every entry after them is of a module of another type.
C6_AssemblyFlagModulesAreIncluded ==
    include_statements # None =>
        LET list == include_statements[1]
            n    == Len(TitlesOfFlag("assembly"))
        IN  /\ Len(list) = Len(cmdline_args.mods)
            /\ n <= Len(list)
            /\ \A k \in 1..Len(list) :
                  /\ list[k] = non_populated[k].include_statement
                  /\ k <= n => /\ non_populated[k].module_type = "Assembly"
                               /\ non_populated[k].title = TitlesOfFlag("assembly")[k]
                  /\ k > n  => non_populated[k].module_type # "Assembly"

\* --assembly "A  b" --include-in ...: the include list of the populated
\* assembly is the include statement of the assembly a-b.
C6_Witness ==
    /\ cmdline_args.mods = << [flag |-> "assembly", title |-> <<"A", " ", " ", "b">>] >>
    /\ options.prefixes
    /\ populated # None
    /\ include_statements =
         Some(<< << "include::", "assembly_", "a", "-", "b", ".adoc", "[leveloffset=+1]" >> >>)

\* The number of modules a run of the command line generates.
ModulesRequested ==
    Len(cmdline_args.mods) + (IF cmdline_args.include_in # None THEN 1 ELSE 0)

\* C7 (as claimed): after a successful run the number of distinct files
\* written equals the number of generated modules.
C7_OneFilePerModule ==
    result = "Ok" => Cardinality(DOMAIN disk) = ModulesRequested

\* The paths of the generated modules.
GeneratedPaths == { FilePath(Generated[k], options) : k \in 1..Len(Generated) }

\* C7 (amended): after a successful run every generated module has a file
\* at its path and there is no other file of the run; the number of distinct
\* files is the number of distinct paths among the generated modules, which
\* is at most the number of generated modules and equals it exactly when no
\* two of them have the same path; modules with the same path share one file.
C7_OneFilePerDistinctPath ==
    result = "Ok" =>
        /\ Len(Generated) = ModulesRequested
        /\ DOMAIN disk = GeneratedPaths
        /\ Cardinality(DOMAIN disk) <= ModulesRequested
        /\ (Cardinality(DOMAIN disk) = ModulesRequested) <=>
              \A i, j \in 1..Len(Generated) :
                  i # j => FilePath(Generated[i], options) # FilePath(Generated[j], options)

\* A successful run of --concept "c!" --concept "c!": two modules with one
\* path, one file.
C7_Witness ==
    /\ result = "Ok"
    /\ cmdline_args.mods = << [flag |-> "concept", title |-> <<"c", "!">>],
                              [flag |-> "concept", title |-> <<"c", "!">>] >>
    /\ Len(Generated) = 2
    /\ FilePath(Generated[1], options) = FilePath(Generated[2], options)
    /\ Cardinality(DOMAIN disk) = 1

\* A successful run with three modules and three files.
C7_WitnessDistinct ==
    /\ result = "Ok"
    /\ Len(Generated) = 3
    /\ Cardinality(DOMAIN disk) = 3

\* The validation loop has been entered.
InValidatePhase == pc = "validate" \/ validated # << >> \/ result = "Ok"

\* C8: the validation loop starts only after all writes of the write loop
\* and of the populated assembly are over, and it changes no file: at every
\* state of the loop and after it, whatever the validations returned, the
\* disk and the write log are what the writes of the generated modules left.
C8_ValidateAfterWritesAndWritesNothing ==
    InValidatePhase =>
        /\ next_write = Len(non_populated) + 1
        /\ cmdline_args.include_in # None => n_populated = 1
        /\ Len(Generated) = ModulesRequested
        /\ write_log = PathsOf(Generated)
        /\ Len(write_modes) = Len(Generated)
        /\ disk = DiskAfter(<< >>, Generated, write_modes, options)
        /\ DOMAIN disk = Range(write_log)

\* Two validations ran, the second failed, after three writes.
C8_Witness ==
    /\ Len(validated) = 2
    /\ validated[1].outcome = "Ok"
    /\ validated[2].outcome = "Err"
    /\ result = "Err(validate)"
    /\ Len(write_log) = 3
    /\ Cardinality(DOMAIN disk) = 3

\* C9: the command line gives --include-in only with a title of one of the
\* five module flags, so the gathered include list is never empty and the
\* assertion of run does not fail.
C9_IncludeListNonEmpty ==
    /\ result # "panic(assert)"
    /\ include_statements # None =>
          /\ cmdline_args.mods # << >>
          /\ include_statements[1] # << >>

\* --snippet "c!" --include-in ...: the list has the one statement.
C9_Witness ==
    /\ cmdline_args.mods = << [flag |-> "snippet", title |-> <<"c", "!">>] >>
    /\ include_statements # None
    /\ Len(include_statements[1]) = 1
    /\ populated # None

\* C10: process_module_type is called only with the five strings of the
\* module flags, each matched to the module type of its name, so the
\* unimplemented!() arm is never reached.
C10_UnimplementedUnreachable ==
    /\ result # "panic(unimplemented)"
    /\ \A k \in 1..Len(calls) :
          /\ calls[k].str \in ModuleFlags
          /\ calls[k].module_type = TypeNamedLike(calls[k].str)
          /\ calls[k].module_type \in ModuleType
    /\ \A k \in 1..Len(non_populated) : non_populated[k].module_type \in ModuleType

\* process_module_type was called for two flags, reference being one.
C10_Witness ==
    /\ Len(calls) = 2
    /\ calls[2].str = "reference"
    /\ calls[2].module_type = "Reference"
    /\ cmdline_args.validate # << >>
    /\ pc = "write"

====
